---- MODULE Spec2Model ----
(***************************************************************************)
(* The polls application: Question and Choice records (polls/models.py),   *)
(* the index / detail / results views and the vote view (polls/views.py).  *)
(* Time is counted in whole seconds.  The store is the relational database *)
(* behind the two models: one row per Question, one row per Choice, a      *)
(* foreign key from Choice to Question with ON DELETE CASCADE.             *)
(***************************************************************************)
EXTENDS Integers, Sequences, FiniteSets, TLC

VARIABLES
    now,        \* timezone.now(): the wall clock, in seconds
    ticks,      \* how many times the clock has been advanced
    questions,  \* Question table: id -> [pub_date]
    choices,    \* Choice table: id -> [question, votes]
    nextQid,    \* next primary key of the Question table
    nextCid,    \* next primary key of the Choice table
    pc,         \* per request handler: position inside vote()
    req,        \* per request handler: [question_id, POST] of the vote request
    selected,   \* per request handler: selected_choice, the Choice instance in memory
    calls,      \* number of vote requests received
    redirects,  \* per Choice id: number of vote calls answered with the redirect
    resp        \* the response of the handler that completed last

vars == <<now, ticks, questions, choices, nextQid, nextCid,
          pc, req, selected, calls, redirects, resp>>

-----------------------------------------------------------------------------
(* Bounds of the model *)

MaxQuestions == 2       \* Question rows ever created (Spec, SpecRace, SpecViews)
MaxChoices == 2         \* Choice rows ever created
NumHandlers == 2        \* request handlers that can run vote() at the same time
MaxCalls == 1           \* vote requests received (Spec)
MaxRaceCalls == 2       \* vote requests received (SpecRace)
MaxTicks == 1           \* clock advances (SpecRecent)
MaxListed == 7          \* Question rows ever created (SpecIndex)

(* Program constants *)

OneDay == 86400         \* datetime.timedelta(days=1), in seconds
PageSize == 5           \* the slice [:5] of the index query
DefaultVotes == 0       \* IntegerField(default=0)

Handlers == 1..NumHandlers
QuestionIds == 1..MaxQuestions
ChoiceIds == 1..MaxChoices

Min(a, b) == IF a <= b THEN a ELSE b

Days(n) == n * OneDay

-----------------------------------------------------------------------------
(* Question.was_published_recently *)

was_published_recently_lower_bound_only(pub_date, t) ==
    pub_date >= t - Days(1)

was_published_recently(pub_date, t) ==
    /\ t - Days(1) <= pub_date
    /\ pub_date <= t

-----------------------------------------------------------------------------
(* Responses.  Every response is a record of the same shape; the fields a   *)
(* response does not use are left at their blank values.                    *)

Blank == [op |-> "none", kind |-> "none", question_id |-> 0, choice |-> 0,
          pub_date |-> 0, at |-> 0, flag |-> FALSE, list |-> <<>>]

Response(op, kind) == [Blank EXCEPT !.op = op, !.kind = kind]

-----------------------------------------------------------------------------
(* The store *)

\* Model.objects.create: the new row under the next primary key
Insert(table, pk, row) == (pk :> row) @@ table

\* the empty table
Empty == [pk \in {} |-> pk]

\* question.choice_set: the Choice rows whose foreign key is the Question
choice_set(question_id) ==
    {c \in DOMAIN choices : choices[c].question = question_id}

\* on_delete=models.DO_NOTHING
CascadeNothing(question_id) == choices

\* on_delete=models.CASCADE: the Choice rows that survive deleting a Question
Cascade(question_id) ==
    [c \in DOMAIN choices \ choice_set(question_id) |-> choices[c]]

\* ForeignKey(Question): the constraint a Choice row must satisfy to be written
ForeignKeyHolds(row) == row.question \in DOMAIN questions

\* create_question(question_text, days) of polls/tests.py
create_question(maxRows, days) ==
    /\ nextQid <= maxRows
    /\ questions' = Insert(questions, nextQid, [pub_date |-> now + Days(days)])
    /\ nextQid' = nextQid + 1
    /\ resp' = [Response("create_question", "ok") EXCEPT
                    !.question_id = nextQid, !.pub_date = now + Days(days)]
    /\ UNCHANGED <<now, ticks, choices, nextCid, pc, req, selected, calls, redirects>>

\* Choice(question=q, choice_text=...).save(): votes takes its default
create_choice(question_id) ==
    /\ nextCid <= MaxChoices
    /\ question_id \in DOMAIN questions
    /\ choices' = Insert(choices, nextCid,
                         [question |-> question_id, votes |-> DefaultVotes])
    /\ nextCid' = nextCid + 1
    /\ resp' = [Response("create_choice", "ok") EXCEPT
                    !.question_id = question_id, !.choice = nextCid]
    /\ UNCHANGED <<now, ticks, questions, nextQid, pc, req, selected, calls, redirects>>

\* question.delete(): the row goes, and with it the rows that reference it
delete_question(question_id) ==
    /\ question_id \in DOMAIN questions
    /\ questions' = [q \in DOMAIN questions \ {question_id} |-> questions[q]]
    /\ choices' = Cascade(question_id)
    /\ resp' = [Response("delete_question", "ok") EXCEPT !.question_id = question_id]
    /\ UNCHANGED <<now, ticks, nextQid, nextCid, pc, req, selected, calls, redirects>>

\* the wall clock moves on
Tick(delta) ==
    /\ ticks < MaxTicks
    /\ now' = now + delta
    /\ ticks' = ticks + 1
    /\ UNCHANGED <<questions, choices, nextQid, nextCid, pc, req, selected,
                   calls, redirects, resp>>

-----------------------------------------------------------------------------
(* The views *)

\* Question.objects.order_by('-pub_date') over a set of rows: every order the
\* database may return, latest pub_date first, rows of equal pub_date in any order
RECURSIVE order_by_pub_date_desc(_)
order_by_pub_date_desc(rows) ==
    IF rows = {} THEN {<<>>}
    ELSE LET latest == {q \in rows :
                          \A r \in rows : questions[r].pub_date <= questions[q].pub_date}
         IN  UNION {{<<q>> \o rest : rest \in order_by_pub_date_desc(rows \ {q})} :
                     q \in latest}

\* the slice [:n]
Slice(s, n) == SubSeq(s, 1, Min(n, Len(s)))

\* Question.objects.order_by('-pub_date')[:5], the query without the filter
get_queryset_unfiltered(t) ==
    {Slice(s, PageSize) : s \in order_by_pub_date_desc(DOMAIN questions)}

\* IndexView.get_queryset at time t: the sequences of ids the query may return
get_queryset(t) ==
    LET filtered == {q \in DOMAIN questions : questions[q].pub_date <= t}
    IN  {Slice(s, PageSize) : s \in order_by_pub_date_desc(filtered)}

\* Listing an unchanged table again returns a member of the same set and
\* reaches no new state, so one listing is taken per state of the table.
IndexView ==
    /\ resp.op # "index"
    /\ \E list \in get_queryset(now) :
          resp' = [Response("index", "ok") EXCEPT !.list = list, !.at = now]
    /\ UNCHANGED <<now, ticks, questions, choices, nextQid, nextCid,
                   pc, req, selected, calls, redirects>>

\* a detail view whose queryset leaves out the Questions not yet published
get_object_published(question_id) ==
    /\ question_id \in DOMAIN questions
    /\ questions[question_id].pub_date <= now

\* generic.DetailView with model = Question: TRUE when the object is found
get_object(question_id) == question_id \in DOMAIN questions

View(name, question_id) ==
    /\ resp' = IF get_object(question_id)
               THEN [Response(name, "ok") EXCEPT
                        !.question_id = question_id,
                        !.pub_date = questions[question_id].pub_date]
               ELSE [Response(name, "not_found") EXCEPT !.question_id = question_id]
    /\ UNCHANGED <<now, ticks, questions, choices, nextQid, nextCid,
                   pc, req, selected, calls, redirects>>

DetailView(question_id) == View("detail", question_id)

ResultsView(question_id) == View("results", question_id)

\* a call of question.was_published_recently()
WasPublishedRecently(question_id) ==
    /\ question_id \in DOMAIN questions
    /\ resp' = [Response("was_published_recently", "ok") EXCEPT
                    !.question_id = question_id,
                    !.pub_date = questions[question_id].pub_date,
                    !.at = now,
                    !.flag = was_published_recently(questions[question_id].pub_date, now)]
    /\ UNCHANGED <<now, ticks, questions, choices, nextQid, nextCid,
                   pc, req, selected, calls, redirects>>

-----------------------------------------------------------------------------
(* vote(request, question_id), one database statement per step *)

\* request.POST: a mapping that has the key 'choice' or not
POSTs == {Empty} \cup {[k \in {"choice"} |-> c] : c \in ChoiceIds}

NoRequest == [question_id |-> 0, POST |-> Empty]

NoInstance == [id |-> 0, question |-> 0, votes |-> 0]

\* the choice field of a request, 0 when it was not submitted
Submitted(POST) == IF "choice" \in DOMAIN POST THEN POST["choice"] ELSE 0

\* a lookup that also requires the Question to be published
get_published_object_or_404(question_id) ==
    /\ question_id \in DOMAIN questions
    /\ questions[question_id].pub_date <= now

\* get_object_or_404(Question, pk=question_id): TRUE when the row is found
get_object_or_404(question_id) == question_id \in DOMAIN questions

\* Choice.objects.get(pk=request.POST['choice']): any Question's Choice is accepted
has_selected_choice_of_any_question(question_id, POST) ==
    /\ "choice" \in DOMAIN POST
    /\ POST["choice"] \in DOMAIN choices

\* question.choice_set.get(pk=request.POST['choice']): FALSE on KeyError and
\* on Choice.DoesNotExist
has_selected_choice(question_id, POST) ==
    /\ "choice" \in DOMAIN POST
    /\ POST["choice"] \in choice_set(question_id)

add_two(votes) == votes + 2

subtract_one(votes) == votes - 1

\* selected_choice.votes += 1
increment(votes) == votes + 1

\* selected_choice.save(): UPDATE the row; when no row was updated, INSERT it
save(instance) ==
    LET row == [question |-> instance.question, votes |-> instance.votes]
    IN  IF instance.id \in DOMAIN choices
        THEN [choices EXCEPT ![instance.id] = row]
        ELSE Insert(choices, instance.id, row)

\* TRUE when save() raises IntegrityError: the row is gone and the INSERT
\* references a Question that is gone too
save_fails(instance) ==
    /\ instance.id \notin DOMAIN choices
    /\ ~ForeignKeyHolds(instance)

VoteResponse(h, kind) ==
    [Response("vote", kind) EXCEPT !.question_id = req[h].question_id,
                                   !.choice = Submitted(req[h].POST)]

\* the request arrives at the first free handler;
\* question = get_object_or_404(Question, pk=question_id)
vote_get_question(h, question_id, POST, maxCalls) ==
    /\ pc[h] = "idle"
    /\ \A g \in Handlers : g < h => pc[g] # "idle"
    /\ calls < maxCalls
    /\ calls' = calls + 1
    /\ IF get_object_or_404(question_id)
       THEN /\ pc' = [pc EXCEPT ![h] = "get_choice"]
            /\ req' = [req EXCEPT ![h] = [question_id |-> question_id, POST |-> POST]]
            /\ UNCHANGED resp
       ELSE /\ resp' = [Response("vote", "not_found") EXCEPT
                            !.question_id = question_id, !.choice = Submitted(POST)]
            /\ UNCHANGED <<pc, req>>
    /\ UNCHANGED <<now, ticks, questions, choices, nextQid, nextCid, selected, redirects>>

\* the try block: selected_choice = question.choice_set.get(...), or the
\* detail page with the error message
vote_get_choice(h) ==
    /\ pc[h] = "get_choice"
    /\ IF has_selected_choice(req[h].question_id, req[h].POST)
       THEN LET c == req[h].POST["choice"]
            IN  /\ selected' = [selected EXCEPT ![h] =
                                  [id |-> c, question |-> choices[c].question,
                                   votes |-> choices[c].votes]]
                /\ pc' = [pc EXCEPT ![h] = "save"]
                /\ UNCHANGED <<req, resp>>
       ELSE /\ resp' = VoteResponse(h, "no_selection")
            /\ pc' = [pc EXCEPT ![h] = "idle"]
            /\ req' = [req EXCEPT ![h] = NoRequest]
            /\ UNCHANGED selected
    /\ UNCHANGED <<now, ticks, questions, choices, nextQid, nextCid, calls, redirects>>

\* the else block: votes += 1, save(), redirect to polls:results
vote_save(h) ==
    /\ pc[h] = "save"
    /\ LET instance == [selected[h] EXCEPT !.votes = increment(@)]
       IN  IF save_fails(instance)
           THEN /\ resp' = VoteResponse(h, "server_error")
                /\ UNCHANGED <<choices, redirects>>
           ELSE /\ choices' = save(instance)
                /\ redirects' = [redirects EXCEPT ![instance.id] = @ + 1]
                /\ resp' = VoteResponse(h, "redirect")
    /\ pc' = [pc EXCEPT ![h] = "idle"]
    /\ req' = [req EXCEPT ![h] = NoRequest]
    /\ selected' = [selected EXCEPT ![h] = NoInstance]
    /\ UNCHANGED <<now, ticks, questions, nextQid, nextCid, calls>>

-----------------------------------------------------------------------------
(* Specifications *)

Init ==
    /\ now = 0
    /\ ticks = 0
    /\ questions = Empty
    /\ choices = Empty
    /\ nextQid = 1
    /\ nextCid = 1
    /\ pc = [h \in Handlers |-> "idle"]
    /\ req = [h \in Handlers |-> NoRequest]
    /\ selected = [h \in Handlers |-> NoInstance]
    /\ calls = 0
    /\ redirects = [c \in ChoiceIds |-> 0]
    /\ resp = Blank

\* the days offsets polls/tests.py creates Questions with
PastAndFuture == {-5, 5}

IndexDays == {-30, -5, 30}

\* the voting application: Questions and Choices come and go while requests vote
Voting(maxCalls) ==
    \/ \E days \in PastAndFuture : create_question(MaxQuestions, days)
    \/ \E q \in QuestionIds : create_choice(q)
    \/ \E q \in QuestionIds : delete_question(q)
    \/ \E h \in Handlers, q \in QuestionIds, POST \in POSTs :
          vote_get_question(h, q, POST, maxCalls)
    \/ \E h \in Handlers : vote_get_choice(h)
    \/ \E h \in Handlers : vote_save(h)

Next == Voting(MaxCalls)

Spec == Init /\ [][Next]_vars

\* the same application with enough requests for two of them to overlap
NextRace == Voting(MaxRaceCalls)

SpecRace == Init /\ [][NextRace]_vars

\* the detail and results pages over a changing Question table
NextViews ==
    \/ \E days \in PastAndFuture : create_question(MaxQuestions, days)
    \/ \E q \in QuestionIds : create_choice(q)
    \/ \E q \in QuestionIds : delete_question(q)
    \/ \E q \in QuestionIds : DetailView(q)
    \/ \E q \in QuestionIds : ResultsView(q)

SpecViews == Init /\ [][NextViews]_vars

\* the index page over a growing Question table
NextIndex ==
    \/ \E days \in IndexDays : create_question(MaxListed, days)
    \/ IndexView

SpecIndex == Init /\ [][NextIndex]_vars

\* one Question, a moving clock, and calls of was_published_recently
RecentOffsets ==
    {Days(30), Days(5), 1, 0, -1, -(Days(1) - 1), -Days(1), -(Days(1) + 1),
     -Days(5), -Days(30)}

TickDeltas == {1, Days(1), Days(30)}

InitRecent ==
    /\ Init!1 /\ Init!2 /\ Init!4 /\ Init!6 /\ Init!7 /\ Init!8 /\ Init!9
    /\ Init!10 /\ Init!11 /\ Init!12
    /\ \E offset \in RecentOffsets : questions = (1 :> [pub_date |-> now + offset])
    /\ nextQid = 2

NextRecent ==
    \/ \E delta \in TickDeltas : Tick(delta)
    \/ WasPublishedRecently(1)

SpecRecent == InitRecent /\ [][NextRecent]_vars

-----------------------------------------------------------------------------
(* Properties *)

Range(s) == {s[i] : i \in DOMAIN s}

\* the step of handler h that leaves the position `from`
Leaves(h, from) == pc[h] = from /\ pc'[h] # from

\* the Choice row a handler read is still what the table holds
RowAsRead(h) ==
    /\ selected[h].id \in DOMAIN choices
    /\ choices[selected[h].id].question = selected[h].question
    /\ choices[selected[h].id].votes = selected[h].votes

\* C1: was_published_recently, called at time `at` on a Question published at
\* pub_date, answers TRUE exactly when the Question's age at - pub_date lies
\* between 0 and one day, both ends included.
C1_RecentWindow ==
    resp.op = "was_published_recently" =>
        (resp.flag <=> (resp.at - resp.pub_date) \in 0..86400)

\* C1 witness: after the clock has moved, the answer TRUE for a Question
\* published exactly one day before the call
C1_Witness ==
    /\ resp.op = "was_published_recently"
    /\ resp.flag
    /\ resp.pub_date = resp.at - 86400
    /\ resp.at > 0

\* C2: the index lists only Questions with pub_date <= now, latest first, at
\* most five of them, and the five latest of the eligible ones: nothing left
\* out is later than anything listed.  Nothing eligible gives the empty list.
C2_Listing ==
    resp.op = "index" =>
        LET list == resp.list
            eligible == {q \in DOMAIN questions : questions[q].pub_date <= resp.at}
        IN  /\ Range(list) \subseteq eligible
            /\ \A i, j \in DOMAIN list :
                  i < j => /\ list[i] # list[j]
                           /\ questions[list[i]].pub_date >= questions[list[j]].pub_date
            /\ Len(list) <= 5
            /\ Cardinality(eligible) >= 5 => Len(list) = 5
            /\ Cardinality(eligible) < 5 => Range(list) = eligible
            /\ \A q \in eligible \ Range(list) : \A i \in DOMAIN list :
                  questions[q].pub_date <= questions[list[i]].pub_date
            /\ eligible = {} => list = <<>>

\* C2 witness: a full page of five, with an eligible Question left out and a
\* Question of the future in the table
C2_Witness ==
    /\ resp.op = "index"
    /\ Len(resp.list) = 5
    /\ \E q \in DOMAIN questions :
          q \notin Range(resp.list) /\ questions[q].pub_date <= resp.at
    /\ \E q \in DOMAIN questions : questions[q].pub_date > resp.at
    /\ \E i, j \in DOMAIN resp.list :
          questions[resp.list[i]].pub_date > questions[resp.list[j]].pub_date

\* C3: when the vote request carries no choice field, or one that names no
\* Choice of the Question, the lookup step answers with the no-selection page
\* for that Question, and no step of the call before the save changes a row.
C3_NoSelection ==
    [][\A h \in Handlers :
         /\ (Leaves(h, "idle") \/ Leaves(h, "get_choice")) =>
               choices' = choices /\ questions' = questions
         /\ ( /\ Leaves(h, "get_choice")
              /\ ~\E c \in DOMAIN choices :
                    /\ c = Submitted(req[h].POST)
                    /\ choices[c].question = req[h].question_id )
            => /\ pc'[h] = "idle"
               /\ resp'.op = "vote"
               /\ resp'.kind = "no_selection"
               /\ resp'.question_id = req[h].question_id
       ]_vars

\* C3 witness: the no-selection page was the answer to a vote on a stored
\* Question that submitted a Choice of another Question
C3_Witness ==
    /\ resp.op = "vote"
    /\ resp.kind = "no_selection"
    /\ resp.question_id \in DOMAIN questions
    /\ resp.choice \in DOMAIN choices
    /\ choices[resp.choice].question # resp.question_id

\* C4: the save of a vote whose Choice row is as the call read it adds one to
\* that row's votes, leaves every other Choice row and every Question row as
\* it was, and answers with the redirect to the results of the same Question.
C4_ExactlyOne ==
    [][\A h \in Handlers :
         (Leaves(h, "save") /\ RowAsRead(h)) =>
            /\ choices' = [choices EXCEPT ![selected[h].id].votes = @ + 1]
            /\ questions' = questions
            /\ resp'.op = "vote"
            /\ resp'.kind = "redirect"
            /\ resp'.question_id = req[h].question_id
            /\ resp'.choice = selected[h].id
       ]_vars

\* C4 witness: a Choice was voted once while its sibling keeps the default
C4_Witness ==
    /\ resp.op = "vote"
    /\ resp.kind = "redirect"
    /\ resp.choice \in DOMAIN choices
    /\ choices[resp.choice].votes = 1
    /\ \E c \in DOMAIN choices :
          /\ c # resp.choice
          /\ choices[c].question = choices[resp.choice].question
          /\ choices[c].votes = 0

\* C5: once every vote call has returned, each Choice's votes are its default
\* plus the number of calls that were answered with the redirect for it.
C5_NoLostVote ==
    (\A h \in Handlers : pc[h] = "idle") =>
        \A c \in DOMAIN choices : choices[c].votes = redirects[c]

C7_NonNegative ==
    \A c \in DOMAIN choices : choices[c].votes >= 0

\* C7 witness: a Question has been deleted and a Choice of another has a vote
C7_Witness ==
    /\ Cardinality(DOMAIN questions) < nextQid - 1
    /\ \E c \in DOMAIN choices : choices[c].votes >= 1

\* C8: every Choice row references a stored Question, and the step that
\* deletes a Question removes exactly that Question's Choice rows.
C8_Cascade ==
    /\ [](\A c \in DOMAIN choices : choices[c].question \in DOMAIN questions)
    /\ [][\A q \in DOMAIN questions :
            q \notin DOMAIN questions' =>
               /\ DOMAIN choices' = {c \in DOMAIN choices : choices[c].question # q}
               /\ \A c \in DOMAIN choices' : choices'[c] = choices[c]
         ]_vars

\* C8 witness: a Question was deleted between a vote's read of the Choice and
\* its save, the save has run, and another Question still has its Choice
C8_Witness ==
    /\ resp.op = "vote"
    /\ resp.kind = "server_error"
    /\ resp.question_id \notin DOMAIN questions
    /\ DOMAIN choices # {}

\* C9: a vote call is answered with the redirect, the no-selection page or
\* not-found, and a call for an unknown Question id is answered not-found
\* without the Choice lookup and without changing a row.
C9_ThreeOutcomes ==
    /\ [](resp.op = "vote" => resp.kind \in {"redirect", "no_selection", "not_found"})
    /\ [][\A h \in Handlers :
            Leaves(h, "idle") => req'[h].question_id \in DOMAIN questions
         ]_vars
    /\ [][(calls' # calls /\ pc' = pc) =>
             /\ resp'.kind = "not_found"
             /\ resp'.question_id \notin DOMAIN questions
             /\ choices' = choices
         ]_vars

\* C10: a vote on a stored Question whose pub_date is later than now is not
\* answered not-found, reaches the save when it submits one of the Question's
\* Choices, and its save adds one vote and answers with the redirect.
Unpublished(q) == q \in DOMAIN questions /\ questions[q].pub_date > now

C10_FutureQuestion ==
    [][/\ (calls' # calls /\ pc' = pc) => ~Unpublished(resp'.question_id)
       /\ \A h \in Handlers :
            /\ ( /\ Leaves(h, "get_choice")
                 /\ Unpublished(req[h].question_id)
                 /\ Submitted(req[h].POST) \in DOMAIN choices
                 /\ choices[Submitted(req[h].POST)].question = req[h].question_id )
               => pc'[h] = "save"
            /\ (Leaves(h, "save") /\ Unpublished(req[h].question_id) /\ RowAsRead(h))
               => /\ resp'.kind = "redirect"
                  /\ choices'[selected[h].id].votes = choices[selected[h].id].votes + 1
      ]_vars

\* C10 witness: a Question of the future has received a vote
C10_Witness ==
    /\ resp.op = "vote"
    /\ resp.kind = "redirect"
    /\ Unpublished(resp.question_id)
    /\ resp.choice \in DOMAIN choices
    /\ choices[resp.choice].question = resp.question_id
    /\ choices[resp.choice].votes = 1

====
